---- MODULE Spec2Model ----
(***************************************************************************)
(* A model of the Expressive "elements.js" reconciler                      *)
(* (src/src/lib/expressive/elements.js, the variant of lines 630-979):     *)
(* the diff engine (changed, diffTree, diffChildren), the builders, the    *)
(* materializer (renderTree), the property binder with the listener it     *)
(* installs (assignProperties), the patch applier (applyPatch) and render, *)
(* on a host tree with the platform's rules for inserting and replacing    *)
(* nodes.                                                                  *)
(*                                                                         *)
(* JavaScript values are records tagged by the field t:                    *)
(*   [t |-> "undef"]                    undefined (a missing slot)         *)
(*   [t |-> "str", s |-> "a"]           a string                           *)
(*   [t |-> "num", n |-> 0]             a number                           *)
(*   [t |-> "arr", items |-> <<...>>]   an array; a vnode is the array     *)
(*                                      [tag, props, ...children]          *)
(*   [t |-> "obj", entries |-> <<...>>] a plain object, as Object.entries  *)
(*   [t |-> "fn", length |-> n, ...]    a function and its declared arity  *)
(*   [t |-> "event"]                    a native event object              *)
(***************************************************************************)
EXTENDS Integers, Sequences, FiniteSets, TLC

VARIABLES
  heap,       \* the host nodes, by identity
  stateMap,   \* the generation side table: node identity -> generation
  pending,    \* the listeners the event being dispatched has still to invoke
  last,       \* what the last call was, and what it did
  log,        \* the calls made so far
  argA, argB, \* a pair of values handed to the diff engine
  ret         \* what the diff engine answered

vars == <<heap, stateMap, pending, last, log, argA, argB, ret>>

---------------------------------------------------------------------------
(* JavaScript values *)

Undefined == [t |-> "undef"]

Str(s) == [t |-> "str", s |-> s]

Num(n) == [t |-> "num", n |-> n]

Arr(items) == [t |-> "arr", items |-> items]

Obj(entries) == [t |-> "obj", entries |-> entries]

\* null
Null == [t |-> "null"]

\* a reference to a platform node (an instance of Node)
HostRef == [t |-> "node"]

\* typeof x
TypeOf(x) ==
  CASE x.t = "undef" -> "undefined"
    [] x.t = "str"   -> "string"
    [] x.t = "num"   -> "number"
    [] x.t = "fn"    -> "function"
    [] OTHER         -> "object"

\* Array.isArray(x)
IsArray(x) == x.t = "arr"

\* !x : undefined, null, 0 and '' are the falsy values of the model
Falsy(x) ==
  \/ x.t = "undef"
  \/ x.t = "null"
  \/ x.t = "num" /\ x.n = 0
  \/ x.t = "str" /\ x.s = ""

\* a[i], zero-based; a missing index reads as undefined
Idx(a, i) == IF i < Len(a.items) THEN a.items[i + 1] ELSE Undefined

\* a.slice(2)
Slice2(a) == SubSeq(a.items, 3, Len(a.items))

\* s[i], one-based, of a child list; a missing slot reads as undefined
At(s, i) == IF i <= Len(s) THEN s[i] ELSE Undefined

Max(m, n) == IF m >= n THEN m ELSE n

---------------------------------------------------------------------------
(* Diff engine *)

\* changed without its first disjunct (the typeof comparison)
changedNoTypeof(a, b) ==
  \/ TypeOf(a) = "string" /\ a # b
  \/ IsArray(a) /\ IsArray(b) /\ Idx(a, 0) # Idx(b, 0)

\* changed comparing number leaves by value as well as string leaves
changedNumbersToo(a, b) ==
  \/ TypeOf(a) # TypeOf(b)
  \/ TypeOf(a) \in {"string", "number"} /\ a # b
  \/ IsArray(a) /\ IsArray(b) /\ Idx(a, 0) # Idx(b, 0)

\* a variant that also compares the props of two vnodes
changedPropsToo(a, b) ==
  \/ TypeOf(a) # TypeOf(b)
  \/ TypeOf(a) = "string" /\ a # b
  \/ IsArray(a) /\ IsArray(b) /\ (Idx(a, 0) # Idx(b, 0) \/ Idx(a, 1) # Idx(b, 1))

changed(a, b) ==
  \/ TypeOf(a) # TypeOf(b)
  \/ TypeOf(a) = "string" /\ a # b
  \/ IsArray(a) /\ IsArray(b) /\ Idx(a, 0) # Idx(b, 0)

RECURSIVE diffTree(_, _)
RECURSIVE diffChildren(_, _)

diffTree(a, b) ==
  IF Falsy(a) THEN [type |-> "CREATE", newNode |-> b]
  ELSE IF Falsy(b) THEN [type |-> "REMOVE"]
  ELSE IF changed(a, b) THEN [type |-> "REPLACE", newNode |-> b]
  ELSE IF IsArray(a) /\ IsArray(b)
    THEN [type |-> "UPDATE", children |-> diffChildren(Slice2(a), Slice2(b))]
  ELSE Undefined

diffChildren(aChildren, bChildren) ==
  [i \in 1..Max(Len(aChildren), Len(bChildren)) |->
     diffTree(At(aChildren, i), At(bChildren, i))]

---------------------------------------------------------------------------
(* Builders and the component wrapper *)

\* a variant that takes every typeof 'object' value for props
isPropsObjectLoose(x) == TypeOf(x) = "object"

isPropsObject(x) ==
  /\ TypeOf(x) = "object" /\ x # Null
  /\ ~IsArray(x)
  /\ x.t # "node"

\* elements[tag](...args): args is the list of the actual arguments
Build(tag, args) ==
  LET propsOrChild == At(args, 1)
      children == SubSeq(args, 2, Len(args))
  IN IF isPropsObject(propsOrChild)
       THEN Arr(<<Str(tag), propsOrChild>> \o children)
       ELSE Arr(<<Str(tag), Obj(<<>>)>> \o <<propsOrChild>> \o children)

wrap(vnode) == Arr(<<Str("wrap"), Obj(<<>>), vnode>>)

---------------------------------------------------------------------------
(* The host tree: the platform's nodes, by identity.  heap[id] is the node  *)
(* with identity id; nodes are never freed, a detached node stays in the    *)
(* heap with parentNode = NullNode.                                         *)

NullNode == 0

DocumentId == 1

HtmlId == 2

HeadId == 3

BodyId == 4

AppId == 5

Node(kind, tag, data) ==
  [ kind |-> kind, tag |-> tag, data |-> data,
    childNodes |-> <<>>, parentNode |-> NullNode,
    root |-> FALSE, vnode |-> Undefined,
    on |-> <<>>, attrs |-> <<>> ]

\* the page before any render: document > html > (head, body > div#app)
InitHeap ==
  << [Node("document", "", "") EXCEPT !.childNodes = <<HtmlId>>],
     [Node("element", "html", "") EXCEPT !.parentNode = DocumentId,
                                         !.childNodes = <<HeadId, BodyId>>],
     [Node("element", "head", "") EXCEPT !.parentNode = HtmlId],
     [Node("element", "body", "") EXCEPT !.parentNode = HtmlId,
                                         !.childNodes = <<AppId>>],
     [Node("element", "div", "") EXCEPT !.parentNode = BodyId] >>

EmptyMap == [x \in {} |-> 0]

MapSet(m, k, v) == [x \in DOMAIN m \cup {k} |-> IF x = k THEN v ELSE m[x]]

\* the state the reconciler's procedures run on: the nodes, the generation side
\* table, and the exception in flight ("" when none)
Dom(h, sm) == [heap |-> h, stateMap |-> sm, err |-> ""]

Throw(d, e) == IF d.err = "" THEN [d EXCEPT !.err = e] ELSE d

IndexOf(s, x) ==
  IF \E i \in 1..Len(s) : s[i] = x THEN CHOOSE i \in 1..Len(s) : s[i] = x ELSE 0

Without(s, x) == SelectSeq(s, LAMBDA y : y # x)

InsertAt(s, i, x) == SubSeq(s, 1, i - 1) \o <<x>> \o SubSeq(s, i, Len(s))

RECURSIVE IsInclusiveAncestor(_, _, _)
\* a is n or an ancestor of n
IsInclusiveAncestor(h, a, n) ==
  /\ n # NullNode
  /\ n = a \/ IsInclusiveAncestor(h, a, h[n].parentNode)

\* remove n from its parent, if it has one
detach(h, n) ==
  IF h[n].parentNode = NullNode THEN h
  ELSE [h EXCEPT ![h[n].parentNode].childNodes = Without(@, n),
                 ![n].parentNode = NullNode]

\* insert the parentless n under parent, before ref (at the end when ref is null)
insertBefore(h, parent, n, ref) ==
  LET kids == h[parent].childNodes
      i == IF ref = NullNode THEN Len(kids) + 1 ELSE IndexOf(kids, ref)
  IN [h EXCEPT ![parent].childNodes = InsertAt(kids, i, n),
               ![n].parentNode = parent]

nextSibling(h, n) ==
  LET p == h[n].parentNode
  IN IF p = NullNode THEN NullNode
     ELSE LET kids == h[p].childNodes
              i == IndexOf(kids, n)
          IN IF i < Len(kids) THEN kids[i + 1] ELSE NullNode

\* parent.childNodes[index], zero-based: undefined (NullNode) when out of range
childAt(h, parent, index) ==
  IF index < Len(h[parent].childNodes) THEN h[parent].childNodes[index + 1]
  ELSE NullNode

\* the platform refuses a text node, or a second element, under the document
DocumentRefuses(h, parent, node, child) ==
  /\ h[parent].kind = "document"
  /\ \/ h[node].kind = "text"
     \/ /\ h[node].kind = "element"
        /\ \E i \in 1..Len(h[parent].childNodes) :
             /\ h[parent].childNodes[i] # child
             /\ h[h[parent].childNodes[i]].kind = "element"

\* parent.appendChild(node)
appendChild(d, parent, node) ==
  IF d.err # "" THEN d
  ELSE IF parent = NullNode \/ node = NullNode THEN Throw(d, "TypeError")
  ELSE IF d.heap[parent].kind \notin {"document", "element"}
    THEN Throw(d, "HierarchyRequestError")
  ELSE IF IsInclusiveAncestor(d.heap, node, parent)
    THEN Throw(d, "HierarchyRequestError")
  ELSE IF DocumentRefuses(d.heap, parent, node, NullNode)
    THEN Throw(d, "HierarchyRequestError")
  ELSE [d EXCEPT !.heap = insertBefore(detach(@, node), parent, node, NullNode)]

\* parent.removeChild(child)
removeChild(d, parent, child) ==
  IF d.err # "" THEN d
  ELSE IF parent = NullNode \/ child = NullNode THEN Throw(d, "TypeError")
  ELSE IF d.heap[child].parentNode # parent THEN Throw(d, "NotFoundError")
  ELSE [d EXCEPT !.heap = detach(@, child)]

\* parent.replaceChild(node, child)
replaceChild(d, parent, node, child) ==
  IF d.err # "" THEN d
  ELSE IF parent = NullNode \/ node = NullNode \/ child = NullNode
    THEN Throw(d, "TypeError")
  ELSE IF d.heap[parent].kind \notin {"document", "element"}
    THEN Throw(d, "HierarchyRequestError")
  ELSE IF IsInclusiveAncestor(d.heap, node, parent)
    THEN Throw(d, "HierarchyRequestError")
  ELSE IF d.heap[child].parentNode # parent THEN Throw(d, "NotFoundError")
  ELSE IF DocumentRefuses(d.heap, parent, node, child)
    THEN Throw(d, "HierarchyRequestError")
  ELSE
    LET after == nextSibling(d.heap, child)
        ref == IF after = node THEN nextSibling(d.heap, node) ELSE after
    IN [d EXCEPT !.heap = insertBefore(detach(detach(@, node), child), parent, node, ref)]

---------------------------------------------------------------------------
(* User code: the components and handlers handed to the reconciler.  A      *)
(* function is the record [t |-> "fn", length, kind, cap]: its declared     *)
(* arity, which function it is, and the value its closure captured.         *)

Fn(length, kind, cap) == [t |-> "fn", length |-> length, kind |-> kind, cap |-> cap]

Event == [t |-> "event"]

Digits == <<"0", "1", "2", "3", "4", "5", "6", "7", "8", "9">>

RECURSIVE NumToString(_)
\* String(n) for a natural number n
NumToString(n) ==
  IF n < 10 THEN Digits[n + 1]
  ELSE NumToString(n \div 10) \o Digits[(n % 10) + 1]

\* String(x) for a leaf or an event object
JsString(x) ==
  CASE x.t = "str"   -> x.s
    [] x.t = "num"   -> NumToString(x.n)
    [] x.t = "event" -> "[object Event]"

\* x + n for a number n: addition of numbers, concatenation otherwise
Plus(x, n) ==
  IF x.t = "num" THEN Num(x.n + n) ELSE Str(JsString(x) \o NumToString(n))

\* a parameter with a default value: (p = dflt) => ...
Default(x, dflt) == IF x = Undefined THEN dflt ELSE x

\* counter.js: element((count = 0) => div(pre(count), button({ onclick }, 'Increment')))
counterBody == Fn(0, "counter", Undefined)

\* counter.js: prev => counter(prev + 1)
counterOnclick == Fn(1, "counter.onclick", Undefined)

\* a component whose first child slot is its number, with a two-parameter
\* handler and a handler that returns nothing:
\* element((n = 0) => button({ onclick: (prev, e) => tally(prev + 2),
\*                             oninput: e => undefined }, n))
tallyBody == Fn(0, "tally", Undefined)

tallyOnclick == Fn(2, "tally.onclick", Undefined)

tallyOninput == Fn(1, "tally.oninput", Undefined)

\* a component whose handler answers with a document-level tree:
\* element(() => button({ onclick: () => body('x') }, 'Go'))
navBody == Fn(0, "nav", Undefined)

navOnclick == Fn(0, "nav.onclick", Undefined)

\* a component holding another component:
\* element(() => section({ onclick: (prev, e) => panel() }, tally()))
panelBody == Fn(0, "panel", Undefined)

panelOnclick == Fn(2, "panel.onclick", Undefined)

\* a function that throws: () => { throw new Error('boom') }
boomBody == Fn(0, "boom", Undefined)

\* a component whose handler answers with a component that throws:
\* element(() => button({ onclick: (prev, e) => broken() }, 'B')), where
\* broken = element(() => { throw new Error('boom') })
faultyBody == Fn(0, "faulty", Undefined)

faultyOnclick == Fn(2, "faulty.onclick", Undefined)

\* a component whose handler answers with the page's body carrying a handler:
\* element(() => button({ onclick: go }, 'S')), where
\* go = () => body({ onclick: go }, 'x')
shellBody == Fn(0, "shell", Undefined)

shellOnclick == Fn(0, "shell.onclick", Undefined)

\* a component with a handler on its root element, a plain button with a
\* handler inside it, and another component inside it:
\* element(() => section({ onclick: again }, button({ onclick: again }, 'F'), nav())),
\* where again = (prev, e) => frame()
frameBody == Fn(0, "frame", Undefined)

frameOnclick == Fn(2, "frame.onclick", Undefined)

RECURSIVE Call(_, _)
RECURSIVE element(_, _)

\* a variant whose fallback does not carry the error's message
elementSilent(fn, args) ==
  IF Call(fn, args).threw
    THEN Arr(<<Str("div"), Obj(<<>>), Str("Error")>>)
    ELSE Arr(<<Str("wrap"), Obj(<<>>), Call(fn, args).value>>)

\* a variant without the wrap: the function's result as it is
elementBare(fn, args) == Call(fn, args).value

\* element(fn)(...args)
element(fn, args) ==
  LET r == Call(fn, args)
  IN IF r.threw
       THEN Arr(<<Str("div"), Obj(<<>>), Str("Error: " \o r.message)>>)
       ELSE Arr(<<Str("wrap"), Obj(<<>>), r.value>>)

Return(v) == [threw |-> FALSE, value |-> v, message |-> ""]

\* f(...args): what the user function returns
Call(f, args) ==
  CASE f.kind = "counter" ->
         Return(Build("div",
           << Build("pre", <<Default(At(args, 1), Num(0))>>),
              Build("button", << Obj(<< <<"onclick", counterOnclick>> >>),
                                 Str("Increment") >>) >>))
    [] f.kind = "counter.onclick" ->
         Return(element(counterBody, <<Plus(At(args, 1), 1)>>))
    [] f.kind = "tally" ->
         Return(Build("button", << Obj(<< <<"onclick", tallyOnclick>>,
                                          <<"oninput", tallyOninput>> >>),
                                   Default(At(args, 1), Num(0)) >>))
    [] f.kind = "tally.onclick" ->
         Return(element(tallyBody, <<Plus(At(args, 1), 2)>>))
    [] f.kind = "tally.oninput" ->
         Return(Undefined)
    [] f.kind = "nav" ->
         Return(Build("button", << Obj(<< <<"onclick", navOnclick>> >>), Str("Go") >>))
    [] f.kind = "nav.onclick" ->
         Return(Build("body", <<Str("x")>>))
    [] f.kind = "panel" ->
         Return(Build("section", << Obj(<< <<"onclick", panelOnclick>> >>),
                                    element(tallyBody, <<>>) >>))
    [] f.kind = "panel.onclick" ->
         Return(element(panelBody, <<>>))
    [] f.kind = "faulty" ->
         Return(Build("button", << Obj(<< <<"onclick", faultyOnclick>> >>), Str("B") >>))
    [] f.kind = "faulty.onclick" ->
         Return(element(boomBody, <<>>))
    [] f.kind = "shell" ->
         Return(Build("button", << Obj(<< <<"onclick", shellOnclick>> >>), Str("S") >>))
    [] f.kind = "shell.onclick" ->
         Return(Build("body", << Obj(<< <<"onclick", shellOnclick>> >>), Str("x") >>))
    [] f.kind = "frame" ->
         Return(Build("section",
           << Obj(<< <<"onclick", frameOnclick>> >>),
              Build("button", << Obj(<< <<"onclick", frameOnclick>> >>), Str("F") >>),
              element(navBody, <<>>) >>))
    [] f.kind = "frame.onclick" ->
         Return(element(frameBody, <<>>))
    [] f.kind = "boom" ->
         [threw |-> TRUE, value |-> Undefined, message |-> "boom"]

---------------------------------------------------------------------------
(* Property binder and materializer *)

\* k.startsWith('on'), on the property keys of the model
StartsWithOn(k) == k \in {"onclick", "oninput"}

\* entries with the entry for key k set to v
SetEntry(entries, k, v) ==
  IF \E i \in 1..Len(entries) : entries[i][1] = k
    THEN [i \in 1..Len(entries) |-> IF entries[i][1] = k THEN <<k, v>> ELSE entries[i]]
    ELSE Append(entries, <<k, v>>)

HasEntry(entries, k) == \E i \in 1..Len(entries) : entries[i][1] = k

GetEntry(entries, k) == entries[CHOOSE i \in 1..Len(entries) : entries[i][1] = k][2]

RECURSIVE assignEntries(_, _, _, _)
\* Object.entries(props).forEach(([k, v]) => ...), from entry i on.  The keys
\* 'style' and 'innerHTML' are not among the keys of the model.
assignEntries(d, el, entries, i) ==
  IF i > Len(entries) \/ d.err # "" THEN d
  ELSE
    LET k == entries[i][1]
        v == entries[i][2]
        d1 == IF StartsWithOn(k) /\ TypeOf(v) = "function"
                THEN [d EXCEPT !.heap[el].on = SetEntry(@, k, v)]
                ELSE [d EXCEPT !.heap[el].attrs = SetEntry(@, k, JsString(v))]
    IN assignEntries(d1, el, entries, i + 1)

assignProperties(d, el, props) == assignEntries(d, el, props.entries, 1)

\* document.documentElement
documentElement(h) ==
  LET kids == h[DocumentId].childNodes
  IN IF \E i \in 1..Len(kids) : h[kids[i]].kind = "element"
       THEN kids[CHOOSE i \in 1..Len(kids) :
                   /\ h[kids[i]].kind = "element"
                   /\ \A j \in 1..(i - 1) : h[kids[j]].kind # "element"]
       ELSE NullNode

\* the first child of the document element with the given tag
firstChildTagged(h, tag) ==
  LET root == documentElement(h)
      kids == IF root = NullNode THEN <<>> ELSE h[root].childNodes
  IN IF \E i \in 1..Len(kids) : h[kids[i]].tag = tag
       THEN kids[CHOOSE i \in 1..Len(kids) :
                   /\ h[kids[i]].tag = tag
                   /\ \A j \in 1..(i - 1) : h[kids[j]].tag # tag]
       ELSE NullNode

SingletonTags == {"html", "head", "body"}

\* a fresh node appended to the heap; its identity is Len(heap) + 1
create(d, node) == [d EXCEPT !.heap = Append(@, node)]

\* a variant that seeds every root with generation 0
markRootZero(d, el, node, asRoot) ==
  IF asRoot
    THEN [d EXCEPT !.heap[el].vnode = node,
                   !.heap[el].root = TRUE,
                   !.stateMap = MapSet(@, el, 0)]
    ELSE [d EXCEPT !.heap[el].vnode = node]

\* el.__vnode = node, and for a root: el.__root = true; stateMap.set(el, initialState)
markRoot(d, el, node, asRoot) ==
  IF asRoot
    THEN [d EXCEPT !.heap[el].vnode = node,
                   !.heap[el].root = TRUE,
                   !.stateMap = MapSet(@, el, IF TypeOf(Idx(node, 2)) = "number"
                                                THEN Idx(node, 2).n ELSE 0)]
    ELSE [d EXCEPT !.heap[el].vnode = node]

\* a variant that puts the node first among the parent's children
prependRendered(r, parent) ==
  IF r.d.err # "" THEN r.d
  ELSE [r.d EXCEPT !.heap =
          insertBefore(detach(@, r.el), parent, r.el,
                       IF r.d.heap[parent].childNodes = <<>> THEN NullNode
                       ELSE r.d.heap[parent].childNodes[1])]

\* parent.appendChild(r.el) for the node r.el that renderTree returned in state r.d
appendRendered(r, parent) == appendChild(r.d, parent, r.el)

\* parent.replaceChild(r.el, child) for the node r.el that renderTree returned
replaceWithRendered(r, parent, child) == replaceChild(r.d, parent, r.el, child)

\* a variant without the checks for a malformed vnode: destructuring it throws
placeholderMissing(d, text) == [d |-> Throw(d, "TypeError"), el |-> NullNode]

\* document.createComment(text): the marker node that stands for a malformed vnode
placeholder(d, text) ==
  [d |-> create(d, Node("comment", "", text)), el |-> Len(d.heap) + 1]

RECURSIVE renderTree(_, _, _)
RECURSIVE renderChildren(_, _, _, _)

\* renderTree(node, isRoot), in a browser (isNodeEnv false): the state after it
\* and the node it returns
renderTree(d, node, isRoot) ==
  IF d.err # "" THEN [d |-> d, el |-> NullNode]
  ELSE IF TypeOf(node) \in {"string", "number"}
    THEN [d |-> create(d, Node("text", "", JsString(node))), el |-> Len(d.heap) + 1]
  ELSE IF Falsy(node) \/ (IsArray(node) /\ Len(node.items) = 0)
    THEN placeholder(d, "Empty vnode")
  ELSE IF ~IsArray(node)
    THEN placeholder(d, "Invalid vnode")
  ELSE IF Idx(node, 0) = Str("wrap")
    THEN renderTree(d, Idx(node, 2), TRUE)
  ELSE IF TypeOf(Idx(node, 0)) # "string"
    THEN placeholder(d, "Invalid vnode")
  ELSE
    LET tag == Idx(node, 0).s
        props == Default(Idx(node, 1), Obj(<<>>))
        children == Slice2(node)
        el == CASE tag = "html" -> documentElement(d.heap)
                [] tag = "head" -> firstChildTagged(d.heap, "head")
                [] tag = "body" -> firstChildTagged(d.heap, "body")
                [] OTHER -> Len(d.heap) + 1
        d1 == IF tag \in SingletonTags THEN d ELSE create(d, Node("element", tag, ""))
    IN IF el = NullNode THEN [d |-> Throw(d, "TypeError"), el |-> NullNode]
       ELSE
         [ d |-> renderChildren(
                   assignProperties(markRoot(d1, el, node, isRoot /\ tag # "html"
                                                            /\ tag # "head" /\ tag # "body"),
                                    el, props),
                   el, children, 1),
           el |-> el ]

\* children.forEach(child => el.appendChild(renderTree(child, false))), from child i on
renderChildren(d, el, children, i) ==
  IF i > Len(children) \/ d.err # "" THEN d
  ELSE renderChildren(appendRendered(renderTree(d, children[i], FALSE), el),
                      el, children, i + 1)

\* what a call that may throw gives: the value returned, or the error thrown
Returned(v) == [threw |-> FALSE, value |-> v, error |-> ""]

Thrown(e) == [threw |-> TRUE, value |-> Undefined, error |-> e]

RECURSIVE renderTreeNodeEnv(_, _)
\* renderTree(node, isRoot) where there is no document (isNodeEnv true): every
\* use of the identifier document throws a ReferenceError
renderTreeNodeEnv(node, isRoot) ==
  IF TypeOf(node) \in {"string", "number"} THEN Returned(node)
  ELSE IF Falsy(node) \/ (IsArray(node) /\ Len(node.items) = 0)
    THEN Thrown("ReferenceError")
  ELSE IF ~IsArray(node) THEN Thrown("ReferenceError")
  ELSE IF Idx(node, 0) = Str("wrap") THEN renderTreeNodeEnv(Idx(node, 2), TRUE)
  ELSE Thrown("ReferenceError")

---------------------------------------------------------------------------
(* Patch applier and render entry point *)

RECURSIVE applyPatch(_, _, _, _)
RECURSIVE applyPatches(_, _, _, _)

\* applyPatch(parent, patch, index)
applyPatch(d, parent, patch, index) ==
  IF d.err # "" THEN d
  ELSE IF patch = Undefined THEN d
  ELSE IF parent = NullNode THEN Throw(d, "TypeError")
  ELSE
    LET child == childAt(d.heap, parent, index)
    IN CASE patch.type = "CREATE" ->
              appendRendered(renderTree(d, patch.newNode, TRUE), parent)
         [] patch.type = "REMOVE" ->
              IF child # NullNode THEN removeChild(d, parent, child) ELSE d
         [] patch.type = "REPLACE" ->
              replaceWithRendered(renderTree(d, patch.newNode, TRUE), parent, child)
         [] patch.type = "UPDATE" ->
              applyPatches(d, child, patch.children, 1)

\* patch.children.forEach((p, i) => applyPatch(child, p, i)), from patch i on
\* (i is one-based here, the index handed on is zero-based)
applyPatches(d, child, patches, i) ==
  IF i > Len(patches) \/ d.err # "" THEN d
  ELSE applyPatches(applyPatch(d, child, patches[i], i - 1), child, patches, i + 1)

\* the target render resolves: the container, or the document element for an
\* html tree rendered without a container
renderTarget(d, vtree, container) ==
  IF container = NullNode /\ IsArray(vtree) /\ Idx(vtree, 0) = Str("html")
    THEN documentElement(d.heap)
    ELSE container

\* the initial mount: the tree r.el that renderTree returned replaces the
\* document element when that is the target, and is appended to the target otherwise
mount(r, target) ==
  IF r.d.err # "" THEN r.d
  ELSE IF target = documentElement(r.d.heap)
    THEN replaceChild(r.d, DocumentId, r.el, documentElement(r.d.heap))
    ELSE appendChild(r.d, target, r.el)

\* target.__vnode = vtree, reached when nothing was thrown
storeSnapshot(d, target, vtree) ==
  IF d.err # "" THEN d ELSE [d EXCEPT !.heap[target].vnode = vtree]

\* the usage error render throws
UsageError == "render() requires a container for non-html() root"

\* a variant that materializes the tree before it looks at the target
renderIntoUnchecked(d, vtree, target) ==
  IF target = NullNode THEN Throw(renderTree(d, vtree, TRUE).d, UsageError)
  ELSE storeSnapshot(
         IF Falsy(d.heap[target].vnode)
           THEN mount(renderTree(d, vtree, TRUE), target)
           ELSE applyPatch(d, target, diffTree(d.heap[target].vnode, vtree), 0),
         target, vtree)

\* render(vtree, container) once the target is resolved
renderInto(d, vtree, target) ==
  IF target = NullNode THEN Throw(d, UsageError)
  ELSE storeSnapshot(
         IF Falsy(d.heap[target].vnode)
           THEN mount(renderTree(d, vtree, TRUE), target)
           ELSE applyPatch(d, target, diffTree(d.heap[target].vnode, vtree), 0),
         target, vtree)

\* render(vtree, container): the state after it
render(d, vtree, container) == renderInto(d, vtree, renderTarget(d, vtree, container))

---------------------------------------------------------------------------
(* The installed listener, el[k] = (...args) => { ... } *)

\* a variant that takes the element itself for the root
findRootSelf(h, target) == target

RECURSIVE findRoot(_, _)
\* while (target && !target.__root) target = target.parentNode
findRoot(h, target) ==
  IF target = NullNode THEN NullNode
  ELSE IF h[target].root THEN target
  ELSE findRoot(h, h[target].parentNode)

\* stateMap.get(target) ?? 0
generationOf(sm, target) == IF target \in DOMAIN sm THEN sm[target] ELSE 0

\* the arguments the listener hands to the user handler v
handlerArgs(v, prev, args) ==
  IF v.length = 1 THEN <<At(args, 1)>> ELSE <<Num(prev)>> \o args

\* what a listener did: the state it left, the root it found, whether it called
\* the handler, the generation it read, the arguments it passed on, the
\* handler's result, the root's parent, the node renderTree built for the
\* result, the replacement it put in, and the error its catch clause swallowed
Did(d, target) ==
  [ d |-> d, target |-> target, called |-> FALSE, prev |-> 0, passed |-> <<>>,
    result |-> Undefined, parent |-> NullNode, built |-> NullNode,
    replacement |-> NullNode, caught |-> "" ]

\* a variant that leaves the generation renderTree seeded
recordReplacementSeeded(d, did, replacement, result, nextCount) ==
  IF d.err # ""
    THEN [did EXCEPT !.d = [d EXCEPT !.err = ""], !.caught = d.err]
    ELSE [did EXCEPT !.d = [d EXCEPT !.heap[replacement].vnode = result],
                     !.replacement = replacement]

\* a variant that keeps one generation for the whole page
recordReplacementShared(d, did, replacement, result, nextCount) ==
  IF d.err # ""
    THEN [did EXCEPT !.d = [d EXCEPT !.err = ""], !.caught = d.err]
    ELSE [did EXCEPT !.d = [d EXCEPT !.heap[replacement].vnode = result,
                                     !.stateMap = [x \in DOMAIN @ \cup {replacement}
                                                     |-> nextCount]],
                     !.replacement = replacement]

\* after parent.replaceChild(replacement, target) left state d:
\* replacement.__vnode = result; stateMap.set(replacement, nextCount), or the
\* catch clause when replaceChild threw
recordReplacement(d, did, replacement, result, nextCount) ==
  IF d.err # ""
    THEN [did EXCEPT !.d = [d EXCEPT !.err = ""], !.caught = d.err]
    ELSE [did EXCEPT !.d = [d EXCEPT !.heap[replacement].vnode = result,
                                     !.stateMap = MapSet(@, replacement, nextCount)],
                     !.replacement = replacement]

\* a variant that appends the replacement and leaves the old root in place
replaceRootAppending(rt, did, parent, target, result, nextCount) ==
  recordReplacement(appendChild(rt.d, parent, rt.el), [did EXCEPT !.built = rt.el],
                    rt.el, result, nextCount)

\* const replacement = renderTree(result, true), returned as rt, and on
replaceRoot(rt, did, parent, target, result, nextCount) ==
  recordReplacement(replaceChild(rt.d, parent, rt.el, target),
                    [did EXCEPT !.built = rt.el], rt.el, result, nextCount)

\* a variant that puts whatever the handler returned in the root's place
afterHandlerAlways(d, did, r, target, prev, parent) ==
  IF r.threw THEN [did EXCEPT !.caught = r.message]
  ELSE IF parent = NullNode THEN [did EXCEPT !.result = r.value]
  ELSE replaceRoot(renderTree(d, r.value, TRUE),
                   [did EXCEPT !.result = r.value, !.parent = parent],
                   parent, target, r.value, prev + 1)

\* the listener from the handler's return r on
afterHandler(d, did, r, target, prev, parent) ==
  IF r.threw THEN [did EXCEPT !.caught = r.message]
  ELSE IF ~IsArray(r.value) THEN [did EXCEPT !.result = r.value]
  ELSE IF parent = NullNode THEN [did EXCEPT !.result = r.value]
  ELSE replaceRoot(renderTree(d, r.value, TRUE),
                   [did EXCEPT !.result = r.value, !.parent = parent],
                   parent, target, r.value, prev + 1)

\* the listener once the root is found: target is the root or null, v the handler
withRoot(d, v, target, prev, passed) ==
  IF target = NullNode THEN Did(d, target)
  ELSE afterHandler(d, [Did(d, target) EXCEPT !.called = TRUE, !.prev = prev,
                                              !.passed = passed],
                    Call(v, passed), target, prev, d.heap[target].parentNode)

\* the listener with its handler v and the root it found
listenerFor(d, v, target, args) ==
  withRoot(d, v, target, generationOf(d.stateMap, target),
           handlerArgs(v, generationOf(d.stateMap, target), args))

\* the listener bound on el for key k, invoked with args
listener(d, el, k, args) ==
  listenerFor(d, GetEntry(d.heap[el].on, k), findRoot(d.heap, el), args)

---------------------------------------------------------------------------
(* The values the diff engine is applied to *)

MaxArgs == 2

Leaves == {Str(""), Str("a"), Str("b"), Num(0), Num(1), Num(2)}

RECURSIVE SeqsUpTo(_, _)
SeqsUpTo(S, n) ==
  IF n = 0 THEN {<<>>}
  ELSE LET shorter == SeqsUpTo(S, n - 1)
       IN shorter \cup {Append(s, x) : s \in {q \in shorter : Len(q) = n - 1}, x \in S}

FlatTags == {"div", "pre"}

FlatVnodes == {Build(tag, args) : tag \in FlatTags, args \in SeqsUpTo(Leaves, MaxArgs)}

Picked ==
  { Build("pre", <<Num(0)>>), Build("pre", <<Num(1)>>), Build("div", <<Str("a")>>),
    Build("head", <<>>), wrap(Build("div", <<Str("a")>>)) }

NestedVnodes ==
  {Build("main", <<x>>) : x \in Picked}
    \cup {Build("main", <<x, y>>) : x \in Picked, y \in Picked}

\* the leaves of the lists that get a new head
ShiftLeaves == {Str(""), Str("a"), Str("b"), Num(1)}

\* lists of three children: a head followed by two children
HeadInserted ==
  {Build("div", <<x, c1, c2>>) : x \in ShiftLeaves, c1 \in ShiftLeaves, c2 \in ShiftLeaves}

\* what a component returns: a wrap vnode around its tree
Wrapped ==
  { wrap(Build("div", <<Str("a")>>)), wrap(Build("div", <<Str("a"), Str("b")>>)),
    wrap(Build("pre", <<Num(0)>>)) }

Vnodes == FlatVnodes \cup NestedVnodes \cup HeadInserted \cup Wrapped

Values == {Undefined} \cup Leaves \cup Vnodes

---------------------------------------------------------------------------
(* The diff engine applied to a pair of values *)

NoCall == [op |-> "none"]

InitDom ==
  /\ heap = InitHeap
  /\ stateMap = EmptyMap
  /\ pending = <<>>
  /\ last = NoCall
  /\ log = <<>>

InitDiff ==
  /\ InitDom
  /\ argA \in Values
  /\ argB \in Values
  /\ ret = NoCall

CallChanged ==
  /\ ret.op # "changed"
  /\ ret' = [op |-> "changed", val |-> changed(argA, argB)]
  /\ UNCHANGED <<heap, stateMap, pending, last, log, argA, argB>>

CallDiffTree ==
  /\ ret.op # "diffTree"
  /\ ret' = [op |-> "diffTree", val |-> diffTree(argA, argB)]
  /\ UNCHANGED <<heap, stateMap, pending, last, log, argA, argB>>

CallDiffChildren ==
  /\ ret.op # "diffChildren"
  /\ IsArray(argA) /\ IsArray(argB)
  /\ ret' = [op |-> "diffChildren", val |-> diffChildren(Slice2(argA), Slice2(argB))]
  /\ UNCHANGED <<heap, stateMap, pending, last, log, argA, argB>>

\* renderTree(a) called where there is no document
CallRenderTreeNodeEnv ==
  /\ ret.op # "renderTree"
  /\ ret' = [op |-> "renderTree", val |-> renderTreeNodeEnv(argA, TRUE)]
  /\ UNCHANGED <<heap, stateMap, pending, last, log, argA, argB>>

NextDiff == CallChanged \/ CallDiffTree \/ CallDiffChildren \/ CallRenderTreeNodeEnv

SpecDiff == InitDiff /\ [][NextDiff]_vars

---------------------------------------------------------------------------
(* The builders and the component wrapper applied to argument lists *)

MaxBuildArgs == 2

\* circle({ r: 10 })
circle10 == Build("circle", << Obj(<< <<"r", Num(10)>> >>) >>)

\* the values handed to builders and components as arguments
ArgValues ==
  { Undefined, Null, HostRef, Str("Hello"), Num(0), Obj(<<>>),
    Obj(<< <<"id", Str("test")>> >>), circle10 }

ArgLists == SeqsUpTo(ArgValues, MaxBuildArgs)

\* the functions handed to element()
Components == {counterBody, tallyBody, navBody, panelBody, boomBody}

\* tags of the catalog
BuilderTags == {"div", "svg", "circle"}

InitBuild ==
  /\ InitDom
  /\ argA \in {Arr(a) : a \in ArgLists}
  /\ argB \in Components
  /\ ret = NoCall

\* element(fn)(...args), with fn in argB and args in argA
CallElement ==
  /\ ret.op = "none"
  /\ ret' = [op |-> "element", val |-> element(argB, argA.items)]
  /\ UNCHANGED <<heap, stateMap, pending, last, log, argA, argB>>

\* elements[tag](...args), with args in argA
CallBuilder(tag) ==
  /\ ret.op = "none"
  /\ ret' = [op |-> "builder", tag |-> tag, val |-> Build(tag, argA.items)]
  /\ UNCHANGED <<heap, stateMap, pending, last, log, argA, argB>>

NextBuild == CallElement \/ \E tag \in BuilderTags : CallBuilder(tag)

SpecBuild == InitBuild /\ [][NextBuild]_vars

---------------------------------------------------------------------------
(* The reconciler at work: render calls and events on the page *)

MaxSteps == 3

ul3 ==
  Build("ul", << Build("li", <<Str("a")>>), Build("li", <<Str("b")>>),
                 Build("li", <<Str("c")>>) >>)

ul1 == Build("ul", <<Build("li", <<Str("a")>>)>>)

\* pre({ id: 'p' }, 'a'): pre('a') with a property
idPre == Build("pre", << Obj(<< <<"id", Str("p")>> >>), Str("a") >>)

\* pre(head({ id: '1' })): a tree that binds a property on the page's head
oneHead == Build("pre", << Build("head", << Obj(<< <<"id", Str("1")>> >>) >>) >>)

\* a list with children that are neither vnodes nor leaves between its items:
\* ['ul', {}, undefined, ['li', {}, 'a'], null, [], { k: 'v' }, [1, {}, 'z'], 'b']
holed ==
  Arr(<< Str("ul"), Obj(<<>>), Undefined, Build("li", <<Str("a")>>), Null,
         Arr(<<>>), Obj(<< <<"k", Str("v")>> >>),
         Arr(<<Num(1), Obj(<<>>), Str("z")>>), Str("b") >>)

\* the trees rendered into the container
AppTrees ==
  { Build("pre", <<Num(0)>>), Build("pre", <<Num(1)>>), Build("pre", <<Num(2)>>),
    Build("pre", <<Str("a")>>), ul3, ul1, idPre, oneHead,
    element(counterBody, <<>>),
    Build("main", <<element(tallyBody, <<>>), element(tallyBody, <<>>)>>),
    element(navBody, <<>>),
    element(panelBody, <<>>),
    element(faultyBody, <<>>),
    element(shellBody, <<>>),
    element(frameBody, <<>>),
    holed }

\* the tree rendered without a container
htmlTree ==
  Build("html", << Build("head", <<>>), Build("body", <<element(tallyBody, <<>>)>>) >>)

\* a page whose body holds a plain button, outside any component:
\* html(head(), body(button({ onclick: (prev, e) => tally(prev + 2) }, 'Go')))
bareHtml ==
  Build("html", << Build("head", <<>>),
                   Build("body", << Build("button",
                                          << Obj(<< <<"onclick", tallyOnclick>> >>),
                                             Str("Go") >>) >>) >>)

\* the calls render(vtree, container) that are made
RenderCalls ==
  {<<v, AppId>> : v \in AppTrees} \cup {<<htmlTree, NullNode>>}
    \cup {<<bareHtml, NullNode>>}
    \cup {<<Build("pre", <<Num(1)>>), NullNode>>}
    \cup {<<Build("div", <<Build("body", <<Str("x")>>)>>), AppId>>}

\* the calls render(vtree, slot) into the element an earlier render put first
\* in the container
SlotCalls(h) ==
  IF h[AppId].childNodes # <<>> /\ h[h[AppId].childNodes[1]].kind = "element"
    THEN {<<Build("pre", <<Str("a")>>), h[AppId].childNodes[1]>>}
    ELSE {}

Init ==
  /\ InitDom
  /\ argA = Undefined
  /\ argB = Undefined
  /\ ret = NoCall

\* render(vtree, container), called from outside any event
Render(vtree, container) ==
  /\ pending = <<>>
  /\ Len(log) < MaxSteps
  /\ \E d \in {render(Dom(heap, stateMap), vtree, container)},
        target \in {renderTarget(Dom(heap, stateMap), vtree, container)} :
        /\ heap' = d.heap
        /\ stateMap' = d.stateMap
        /\ last' = [ op |-> "render", vtree |-> vtree, container |-> container,
                     target |-> target, err |-> d.err,
                     prev |-> IF target = NullNode THEN Undefined
                              ELSE heap[target].vnode,
                     mount |-> target # NullNode /\ Falsy(heap[target].vnode),
                     kidsBefore |-> IF target = NullNode THEN <<>>
                                    ELSE heap[target].childNodes ]
        /\ log' = Append(log, [op |-> "render", container |-> container,
                                target |-> target, err |-> d.err])
  /\ UNCHANGED <<pending, argA, argB, ret>>

RECURSIVE eventPath(_, _, _)
\* the path of an event for key k that bubbles from n: the nodes from n up to
\* the document, fixed when the event is dispatched
eventPath(h, n, k) ==
  IF n = NullNode THEN <<>>
  ELSE << <<n, k>> >> \o eventPath(h, h[n].parentNode, k)

RECURSIVE reached(_, _)
\* the rest of the path from the next node that has a listener bound: whether
\* a node has one is looked up when the event reaches the node
reached(h, path) ==
  IF path = <<>> THEN <<>>
  ELSE IF HasEntry(h[Head(path)[1]].on, Head(path)[2]) THEN path
  ELSE reached(h, Tail(path))

RECURSIVE Subtree(_, _)
\* the nodes of the host subtree at n
Subtree(h, n) ==
  IF n = NullNode THEN {}
  ELSE {n} \cup UNION {Subtree(h, h[n].childNodes[i]) : i \in 1..Len(h[n].childNodes)}

\* a variant in which the event goes on from the replacement
remainingRetargeted(h, rest, replacement, k) ==
  IF replacement = NullNode THEN reached(h, rest)
  ELSE reached(h, eventPath(h, replacement, k))

\* the listeners still to be invoked for the event once a listener returned in
\* host state h: the event goes on along the path computed at dispatch
remaining(h, rest, replacement, k) == reached(h, rest)

\* the platform dispatches an event for key k on the element e
Dispatch(e, k) ==
  /\ pending = <<>>
  /\ Len(log) < MaxSteps
  /\ HasEntry(heap[e].on, k)
  /\ pending' = reached(heap, eventPath(heap, e, k))
  /\ last' = [op |-> "dispatch", el |-> e, key |-> k]
  /\ log' = Append(log, [op |-> "dispatch", container |-> NullNode,
                          target |-> NullNode, err |-> ""])
  /\ UNCHANGED <<heap, stateMap, argA, argB, ret>>

\* the platform invokes the next listener of the event being dispatched
RunListener ==
  /\ pending # <<>>
  /\ \E el \in {Head(pending)[1]}, k \in {Head(pending)[2]},
        r \in {listener(Dom(heap, stateMap), Head(pending)[1], Head(pending)[2],
                        <<Event>>)} :
        /\ heap' = r.d.heap
        /\ stateMap' = r.d.stateMap
        /\ last' = [ op |-> "listener", el |-> el, key |-> k,
                     fn |-> GetEntry(heap[el].on, k),
                     target |-> r.target, called |-> r.called, prev |-> r.prev,
                     passed |-> r.passed, result |-> r.result,
                     parent |-> r.parent,
                     index |-> IF r.parent = NullNode THEN 0
                               ELSE IndexOf(heap[r.parent].childNodes, r.target),
                     replacement |-> r.replacement,
                     fresh |-> r.replacement > Len(heap), caught |-> r.caught,
                     made |-> (IF last.op = "listener" THEN last.made ELSE {})
                                \cup {[node |-> n, by |-> r.result] :
                                        n \in Subtree(r.d.heap, r.built)},
                     gone |-> (IF last.op = "listener" THEN last.gone ELSE {})
                                \cup (IF r.replacement # NullNode THEN {r.target}
                                      ELSE {}) ]
        /\ pending' = remaining(r.d.heap, Tail(pending), r.replacement, k)
  /\ UNCHANGED <<log, argA, argB, ret>>

Next ==
  \/ \E c \in RenderCalls \cup SlotCalls(heap) : Render(c[1], c[2])
  \/ \E e \in 1..Len(heap), k \in {"onclick", "oninput"} : Dispatch(e, k)
  \/ RunListener

Spec == Init /\ [][Next]_vars

---------------------------------------------------------------------------
(* Properties of the diff engine (specification SpecDiff) *)

IsLeaf(x) == x.t = "str" \/ x.t = "num"

IsVnode(x) == IsArray(x) /\ Idx(x, 0).t = "str"

Present(x) == IsLeaf(x) \/ IsVnode(x)

PatchType(p) == IF p = Undefined THEN "none" ELSE p.type

\* the condition C8 gives for changed(a, b)
ChangedAsClaimed(a, b) ==
  \/ IsLeaf(a) /\ IsLeaf(b) /\ a.t # b.t
  \/ a.t = "str" /\ b.t = "str" /\ a.s # b.s
  \/ IsVnode(a) /\ IsVnode(b) /\ Idx(a, 0).s # Idx(b, 0).s

\* the kind of a present value: string leaf, number leaf or vnode
Kind(x) == IF IsVnode(x) THEN "vnode" ELSE x.t

\* C8 as stated: for string leaves, number leaves and vnodes a, b, changed(a, b)
\* is true exactly when a and b are leaves of different types, or both strings
\* with different content, or both vnodes with different tags; a vnode against
\* a leaf is not changed.
C8_AsStated ==
  (ret.op = "changed" /\ Present(argA) /\ Present(argB))
    => (ret.val <=> ChangedAsClaimed(argA, argB))

\* C8 amended: for string leaves, number leaves and vnodes a, b, changed(a, b)
\* is true exactly when a and b are of different kinds (string leaf, number
\* leaf, vnode; so a vnode against a leaf is changed), or both strings with
\* different content, or both vnodes with different tags; two different
\* numbers are not changed.
C8_ChangedIff ==
  (ret.op = "changed" /\ Present(argA) /\ Present(argB))
    => (ret.val <=>
          \/ Kind(argA) # Kind(argB)
          \/ argA.t = "str" /\ argB.t = "str" /\ argA.s # argB.s
          \/ IsVnode(argA) /\ IsVnode(argB) /\ Idx(argA, 0).s # Idx(argB, 0).s)

\* C8's case: changed was applied to a vnode and a leaf, and answered true
C8_Witness ==
  /\ ret.op = "changed"
  /\ IsVnode(argA) /\ IsLeaf(argB)
  /\ ret.val

\* C9: changed is symmetric: changed(a, b) = changed(b, a) for every pair of
\* string leaves, number leaves, vnodes and absent slots.
C9_ChangedSymmetric ==
  ret.op = "changed" => (ret.val <=> changed(argB, argA))

\* C9's case: changed was applied to a string leaf and a number leaf (in that
\* order), and answered true
C9_Witness ==
  /\ ret.op = "changed"
  /\ argA.t = "str" /\ argB.t = "num"
  /\ ret.val

\* C10 as stated: diffTree(a, b) is CREATE exactly when a is an absent slot,
\* and REMOVE exactly when a is present and b is an absent slot; for present
\* values, the number 0 and the empty string included, it is neither.
C10_CreateRemoveIffAbsent ==
  ret.op = "diffTree"
    => /\ PatchType(ret.val) = "CREATE" <=> argA = Undefined
       /\ PatchType(ret.val) = "REMOVE" <=> (argA # Undefined /\ argB = Undefined)

RECURSIVE OnlyUpdates(_, _)
\* patch p holds UPDATE at every vnode position of v and nothing at its leaves
OnlyUpdates(p, v) ==
  IF IsArray(v)
    THEN /\ PatchType(p) = "UPDATE"
         /\ Len(p.children) = Len(Slice2(v))
         /\ \A i \in 1..Len(Slice2(v)) : OnlyUpdates(p.children[i], Slice2(v)[i])
    ELSE p = Undefined

\* C7 as stated: for every vnode v made by the builders (number leaves, the
\* leaf 0, empty strings and builders called with no arguments included),
\* diffTree(v, v) holds UPDATE at every vnode position and no patch at a leaf:
\* no CREATE, REPLACE or REMOVE at any depth.
C7_SelfDiffOnlyUpdates ==
  (ret.op = "diffTree" /\ argA = argB /\ IsVnode(argA))
    => OnlyUpdates(ret.val, argA)

\* B is A with the new head x in front, every child of A is changed() from its
\* left neighbour, and x is changed() from the first child
HeadInsertion(A, B) ==
  /\ Len(A) >= 1
  /\ Len(B) = Len(A) + 1
  /\ Tail(B) = A
  /\ changed(B[1], A[1])
  /\ \A i \in 2..Len(A) : changed(A[i - 1], A[i])

\* N REPLACE patches at the indices of A and one CREATE of the last child after them
Amplified(patches, A, B) ==
  /\ Len(patches) = Len(A) + 1
  /\ \A i \in 1..Len(A) : patches[i] = [type |-> "REPLACE", newNode |-> B[i]]
  /\ patches[Len(A) + 1] = [type |-> "CREATE", newNode |-> A[Len(A)]]

\* C11 as stated: diffChildren(A, B) has max(len(A), len(B)) entries, entry i
\* being diffTree(A[i], B[i]); and for children c1..cN each changed() from its
\* left neighbour and a new head X changed() from c1, diffing [c1..cN] against
\* [X, c1..cN] gives N REPLACE patches followed by one CREATE(cN), no UPDATE.
C11_PositionalDiff ==
  ret.op = "diffChildren"
    => LET A == Slice2(argA)
           B == Slice2(argB)
       IN /\ Len(ret.val) = Max(Len(A), Len(B))
          /\ \A i \in 1..Len(ret.val) : ret.val[i] = diffTree(At(A, i), At(B, i))
          /\ HeadInsertion(A, B) => Amplified(ret.val, A, B)

---------------------------------------------------------------------------
(* Properties of the reconciler (specification Spec) *)

RECURSIVE Shape(_, _)
\* the shape of the host subtree at node n: tags, children in order, text data
Shape(h, n) ==
  CASE h[n].kind = "text"    -> [kind |-> "text", data |-> h[n].data]
    [] h[n].kind = "comment" -> [kind |-> "comment"]
    [] OTHER -> [ kind |-> "element", tag |-> h[n].tag,
                  kids |-> [i \in 1..Len(h[n].childNodes)
                              |-> Shape(h, h[n].childNodes[i])] ]

\* the shapes of the children of node n
ChildShapes(h, n) == [i \in 1..Len(h[n].childNodes) |-> Shape(h, h[n].childNodes[i])]

RECURSIVE Mirror(_, _)
\* the shape that mirrors the value v: an element per vnode, a text node per
\* leaf; a wrap vnode stands for its child when transparent, and is an element
\* like any other vnode when not
Mirror(v, transparent) ==
  IF IsLeaf(v) THEN [kind |-> "text", data |-> JsString(v)]
  ELSE IF ~IsVnode(v) THEN [kind |-> "comment"]
  ELSE IF transparent /\ Idx(v, 0) = Str("wrap") THEN Mirror(Idx(v, 2), transparent)
  ELSE [ kind |-> "element", tag |-> Idx(v, 0).s,
         kids |-> [i \in 1..Len(Slice2(v)) |-> Mirror(Slice2(v)[i], transparent)] ]

RECURSIVE Plain(_)
\* no vnode of v has the tag html, head or body
Plain(v) ==
  IF IsVnode(v)
    THEN /\ Idx(v, 0).s \notin SingletonTags
         /\ \A i \in 1..Len(Slice2(v)) : Plain(Slice2(v)[i])
    ELSE TRUE

RECURSIVE Unwrapped(_)
\* the vnode a chain of wrap vnodes stands for
Unwrapped(v) ==
  IF IsArray(v) /\ Idx(v, 0) = Str("wrap") THEN Unwrapped(Idx(v, 2)) ELSE v

RECURSIVE Tree(_, _)
\* the host subtree at node n with the identity of every node in it
Tree(h, n) ==
  [ id |-> n, kind |-> h[n].kind, tag |-> h[n].tag, data |-> h[n].data,
    on |-> h[n].on, attrs |-> h[n].attrs,
    kids |-> [i \in 1..Len(h[n].childNodes) |-> Tree(h, h[n].childNodes[i])] ]

\* every call so far was a render into the container that returned normally
OnlyRendersInto(c) ==
  \A i \in 1..Len(log) :
    log[i].op = "render" /\ log[i].container = c /\ log[i].err = ""

\* C1 as stated: after every call of a sequence render(v1, c), ..., render(vn, c)
\* on one container c that started without children and snapshot, the host
\* subtree under c has the shape of the tree just rendered: same tags, same
\* number and order of children, every text leaf showing its leaf's value.
C1_RenderKeepsInSync ==
  (last.op = "render" /\ last.container = AppId /\ Plain(last.vtree)
     /\ OnlyRendersInto(AppId))
    => ChildShapes(heap, AppId) = <<Mirror(last.vtree, TRUE)>>

\* the last render mounted its tree: the target had no snapshot
Mounted == last.op = "render" /\ last.mount /\ last.container # NullNode

\* the container's children are those it had, then one more
AppendedOne ==
  LET kids == heap[last.container].childNodes
  IN /\ Len(kids) = Len(last.kidsBefore) + 1
     /\ SubSeq(kids, 1, Len(kids) - 1) = last.kidsBefore

\* the shape of the last child of the container
AppendedShape ==
  Shape(heap, heap[last.container].childNodes[Len(heap[last.container].childNodes)])

\* C2 as stated: a render into a container without snapshot appends a host
\* subtree with one host element per vnode of the tree, wrap vnodes included,
\* with the same tag, children in the same order, a text node per leaf.
C2_AsStated ==
  (Mounted /\ last.err = "")
    => AppendedOne /\ AppendedShape = Mirror(last.vtree, FALSE)

\* C2 amended: for a tree without html, head and body tags, a render into a
\* container without snapshot returns normally and appends one host subtree
\* that mirrors the tree with every wrap vnode standing for its child: a host
\* element per vnode other than wrap with the same tag, children in the same
\* order, a text node per leaf.
C2_MountMirrors ==
  (Mounted /\ Plain(last.vtree))
    => /\ last.err = ""
       /\ AppendedOne
       /\ AppendedShape = Mirror(last.vtree, TRUE)

\* C2's case: the counter component, a wrap vnode, was mounted into the container
C2_Witness ==
  /\ Mounted
  /\ last.vtree = element(counterBody, <<>>)
  /\ last.err = ""
  /\ Len(heap[AppId].childNodes) = 1

\* a listener fired inside a root that has a host parent, and the handler
\* returned a vnode
Answered ==
  /\ last.op = "listener"
  /\ last.called
  /\ last.parent # NullNode
  /\ IsArray(last.result)

\* the old root is detached, a new root element sits at its position, and the
\* side table reports the old root's generation plus one for it
Replaced ==
  /\ heap[last.target].parentNode = NullNode
  /\ last.replacement # NullNode
  /\ last.fresh
  /\ heap[last.replacement].root
  /\ heap[last.replacement].parentNode = last.parent
  /\ heap[last.parent].childNodes[last.index] = last.replacement
  /\ generationOf(stateMap, last.replacement) = last.prev + 1

\* C3 as stated: when a listener fires inside a root of generation g that has
\* a host parent and the handler returns a vnode, the old root is detached, a
\* newly materialized root element occupies its position in that parent, and
\* the side table reports g + 1 for the new root.
C3_AsStated == Answered => Replaced

\* C3 amended: the same, for a handler that returns a vnode without html, head
\* and body tags.
C3_RootReplaced == (Answered /\ Plain(last.result)) => Replaced

\* C3's case: a second click on a component: generation 1 became generation 2
C3_Witness ==
  /\ Answered
  /\ last.prev = 1
  /\ last.replacement # NullNode
  /\ generationOf(stateMap, last.replacement) = 2

\* C4: a self-replacement of a root of generation g gives the replacement
\* generation exactly g + 1, whatever is in the first child slot of the vnode
\* the handler returned, and no step lowers the generation recorded for an
\* element.
C4_GenerationsStep ==
  [][ /\ \A e \in DOMAIN stateMap :
           e \in DOMAIN stateMap' /\ stateMap'[e] >= stateMap[e]
      /\ (last'.op = "listener" /\ last'.replacement # NullNode)
           => /\ last'.replacement \in DOMAIN stateMap'
              /\ stateMap'[last'.replacement]
                   = generationOf(stateMap, last'.target) + 1 ]_vars

\* C4's case: the handler returned a vnode whose first child slot is a number
\* other than the next generation, and the replacement has the next generation
C4_Witness ==
  /\ last.op = "listener"
  /\ last.replacement # NullNode
  /\ TypeOf(Idx(Unwrapped(last.result), 2)) = "number"
  /\ Idx(Unwrapped(last.result), 2).n # last.prev + 1
  /\ stateMap[last.replacement] = last.prev + 1

\* the event keys C5 names as input-like
InputLike == {"oninput", "onsubmit", "onchange"}

\* C5 as stated: a listener that finds a root of generation g calls the handler
\* with g as its argument, and with the native event for the keys oninput,
\* onsubmit and onchange; a one-parameter onclick handler receives g.
C5_HandlerReceivesGeneration ==
  (last.op = "listener" /\ last.called)
    => last.passed[1] = (IF last.key \in InputLike THEN Event ELSE Num(last.prev))

\* root r keeps its identity, its generation and its whole host subtree
RootUntouched(r) ==
  /\ heap'[r].root
  /\ heap'[r].parentNode = heap[r].parentNode
  /\ generationOf(stateMap', r) = generationOf(stateMap, r)
  /\ Tree(heap', r) = Tree(heap, r)

\* the step is a self-replacement of a root
SelfReplacement == last'.op = "listener" /\ last'.replacement # NullNode

\* C6 as stated: a self-replacement of one root leaves unchanged the identity,
\* the generation and the whole host subtree of every other root that is not
\* nested inside the replaced root.
C6_AsStated ==
  [][ SelfReplacement
        => \A r \in 1..Len(heap) :
             (heap[r].root /\ ~IsInclusiveAncestor(heap, last'.target, r))
               => RootUntouched(r) ]_vars

\* C6 amended: a self-replacement of one root, by a vnode without html, head
\* and body tags, leaves unchanged the identity, the generation and the whole
\* host subtree of every other root that is neither nested inside the replaced
\* root nor holds it; a root that holds the replaced root keeps its identity
\* and its generation.
C6_RootsIndependent ==
  [][ (SelfReplacement /\ Plain(last'.result))
        => \A r \in 1..Len(heap) :
             (heap[r].root /\ ~IsInclusiveAncestor(heap, last'.target, r))
               => IF IsInclusiveAncestor(heap, r, last'.target)
                    THEN /\ heap'[r].root
                         /\ heap'[r].parentNode = heap[r].parentNode
                         /\ generationOf(stateMap', r) = generationOf(stateMap, r)
                    ELSE RootUntouched(r) ]_vars

\* C6's case: a root was replaced next to a sibling root under the same parent
C6_Witness ==
  /\ last.op = "listener"
  /\ last.replacement # NullNode
  /\ \E r \in 1..Len(heap) :
       /\ heap[r].root
       /\ r \notin {last.target, last.replacement}
       /\ heap[r].parentNode = last.parent

RECURSIVE StripProps(_)
\* the value v with the props of every vnode in it emptied
StripProps(v) ==
  IF IsArray(v) /\ Len(v.items) >= 2
    THEN Arr(<<Idx(v, 0), Obj(<<>>)>>
               \o [i \in 1..Len(Slice2(v)) |-> StripProps(Slice2(v)[i])])
    ELSE v

\* the step is a render that took the patch branch
Patching == last'.op = "render" /\ ~last'.mount /\ last'.container # NullNode

\* two vnodes with the same tag
SameTag(a, b) == IsVnode(a) /\ IsVnode(b) /\ Idx(a, 0) = Idx(b, 0)

\* the patch for two vnodes with the same tag is the UPDATE of their child
\* lists, the patch for two trees that differ in props only is the patch for
\* two identical trees, and every host node that stays under the container
\* keeps its listeners and attributes
PropsLeftAlone ==
  /\ SameTag(last'.prev, last'.vtree)
       => diffTree(last'.prev, last'.vtree)
            = [ type |-> "UPDATE",
                children |-> diffChildren(Slice2(last'.prev), Slice2(last'.vtree)) ]
  /\ StripProps(last'.prev) = StripProps(last'.vtree)
       => diffTree(last'.prev, last'.vtree) = diffTree(last'.prev, last'.prev)
  /\ \A n \in 1..Len(heap) :
       (IsInclusiveAncestor(heap, last'.container, n)
          /\ IsInclusiveAncestor(heap', last'.container, n))
         => heap'[n].on = heap[n].on /\ heap'[n].attrs = heap[n].attrs

\* C12: the patch diffTree gives two vnodes with the same tag depends on their
\* child lists only, so two trees that differ only in props get the patch of
\* two identical trees; and a render into a container over an earlier render
\* leaves every property and listener of the retained host elements as bound.
C12_PropsNotDiffed == [][ Patching => PropsLeftAlone ]_vars

\* C12's case: pre('a') was rendered over pre({ id: 'p' }, 'a'), and the pre
\* element still has its id
C12_Witness ==
  /\ last.op = "render" /\ ~last.mount
  /\ last.prev = idPre
  /\ last.vtree = Build("pre", <<Str("a")>>)
  /\ Len(heap[AppId].childNodes) = 1
  /\ heap[heap[AppId].childNodes[1]].attrs = << <<"id", "p">> >>

\* an earlier render call returned normally with the same target, and so
\* stored its tree on it
StoredEarlier ==
  \E i \in 1..(Len(log) - 1) :
    log[i].op = "render" /\ log[i].target = last.target /\ log[i].err = ""

\* C13 as stated: render takes the initial-mount branch exactly when no
\* earlier render call has stored a snapshot on the target, and the patch
\* branch otherwise; after either branch the target's snapshot is the tree.
C13_MountIffNoSnapshot ==
  (last.op = "render" /\ last.target # NullNode)
    => /\ last.mount <=> ~StoredEarlier
       /\ last.err = "" => heap[last.target].vnode = last.vtree

\* the step is a render without container of a tree that is not an html tree
Containerless ==
  /\ last'.op = "render"
  /\ last'.container = NullNode
  /\ ~(IsArray(last'.vtree) /\ Idx(last'.vtree, 0) = Str("html"))

---------------------------------------------------------------------------
(* Properties of the builders and the component wrapper (specification      *)
(* SpecBuild)                                                               *)

\* the children of vnode v that are vnodes with the given tag
ChildrenTagged(v, tag) ==
  {i \in 1..Len(Slice2(v)) : IsArray(Slice2(v)[i]) /\ Idx(Slice2(v)[i], 0) = Str(tag)}

\* v is a div with a pre child holding count and a button child whose props
\* carry an onclick function
CounterShaped(v, count) ==
  /\ IsArray(v) /\ Idx(v, 0) = Str("div")
  /\ \E i \in ChildrenTagged(v, "pre") : Idx(Slice2(v)[i], 2) = count
  /\ \E i \in ChildrenTagged(v, "button") :
       /\ HasEntry(Idx(Slice2(v)[i], 1).entries, "onclick")
       /\ TypeOf(GetEntry(Idx(Slice2(v)[i], 1).entries, "onclick")) = "function"

PlainMapping(x) == x.t \notin {"undef", "null", "str", "num", "fn", "arr", "node"}

\* C17: for a tag of the catalog, builder(x, ...rest) is [tag, x, ...rest] when
\* x is a plain mapping and [tag, {}, x, ...rest] otherwise (a call without
\* arguments gives [tag, {}, undefined]); div({id:'test'}, 'Hello') is
\* ['div', {id:'test'}, 'Hello'] and svg(circle({r:10})) has the circle vnode
\* as its first child.
C17_BuilderShape ==
  ret.op = "builder"
    => LET x == At(argA.items, 1)
           rest == SubSeq(argA.items, 2, Len(argA.items))
       IN /\ ret.val.t = "arr"
          /\ ret.val.items = IF PlainMapping(x)
                               THEN <<Str(ret.tag), x>> \o rest
                               ELSE <<Str(ret.tag), Obj(<<>>), x>> \o rest

\* C17's case: svg(circle({ r: 10 })) was built, with the circle vnode as its
\* first child and empty props
C17_Witness ==
  /\ ret.op = "builder"
  /\ ret.tag = "svg"
  /\ argA.items = <<circle10>>
  /\ Idx(ret.val, 1) = Obj(<<>>)
  /\ Idx(Idx(ret.val, 2), 0) = Str("circle")

---------------------------------------------------------------------------
(* Further properties of the reconciler (specification Spec) *)

\* the fallback vnode for an error with message m
Fallback(m) == Arr(<<Str("div"), Obj(<<>>), Str("Error: " \o m)>>)

\* C16: when fn throws an error with message m, element(fn)(...args) does not
\* throw but returns a fallback vnode whose text leaf carries m; inside an
\* event handler the listener sees an ordinary vnode result: it catches
\* nothing and puts the fallback in the root's place.
C16_FailureBoundary ==
  (last.op = "listener" /\ last.called /\ last.fn = faultyOnclick)
    => /\ Call(boomBody, <<>>).threw
       /\ last.result = Fallback(Call(boomBody, <<>>).message)
       /\ last.caught = ""
       /\ last.parent # NullNode
            => /\ Replaced
               /\ Shape(heap, last.replacement) = Mirror(Fallback("boom"), TRUE)

\* C16's case: the handler of a mounted component called a component that
\* throws 'boom', and the page shows the fallback in the root's place
C16_Witness ==
  /\ last.op = "listener"
  /\ last.fn = faultyOnclick
  /\ last.replacement # NullNode
  /\ heap[last.replacement].parentNode = AppId
  /\ heap[heap[last.replacement].childNodes[1]].data = "Error: boom"

RECURSIVE RootsAsClaimed(_, _, _, _, _)
\* the host node el that renderTree(v, isRoot) returned, and the nodes under it,
\* carry the root marker and a generation entry where C18 says: a wrap hands
\* isRoot = true to its child, an element is a root exactly when isRoot holds
\* and its tag is not html, head or body, its seed is its first child when
\* that is a number and 0 otherwise, and its children (the last nodes under
\* it) are materialized with isRoot = false
RootsAsClaimed(h, sm, el, v, isRoot) ==
  IF IsArray(v) /\ Idx(v, 0) = Str("wrap")
    THEN RootsAsClaimed(h, sm, el, Idx(v, 2), TRUE)
  ELSE IF ~IsVnode(v)
    THEN ~h[el].root /\ el \notin DOMAIN sm
  ELSE
    LET asRoot == isRoot /\ Idx(v, 0).s \notin {"html", "head", "body"}
        kids == h[el].childNodes
        offset == Len(kids) - Len(Slice2(v))
    IN /\ h[el].root = asRoot
       /\ (el \in DOMAIN sm) = asRoot
       /\ asRoot => sm[el] = (IF Idx(v, 2).t = "num" THEN Idx(v, 2).n ELSE 0)
       /\ offset >= 0
       /\ \A i \in 1..Len(Slice2(v)) :
            RootsAsClaimed(h, sm, kids[offset + i], Slice2(v)[i], FALSE)

\* a render mounted its tree and returned normally
MountedTree == last.op = "render" /\ last.mount /\ last.err = ""

\* the node renderTree returned to the render that mounted it
MountedNode ==
  IF last.container = NullNode THEN last.target
  ELSE heap[last.target].childNodes[Len(heap[last.target].childNodes)]

\* C18: an element renderTree produces carries the root marker and a
\* generation entry exactly when its tag is not html, head or body and either
\* isRoot was true or it is the child of a wrap vnode; the seed is the vnode's
\* first child when that is a number and 0 otherwise; children of a vnode
\* other than wrap are materialized with isRoot = false.
C18_RootMarking ==
  MountedTree => RootsAsClaimed(heap, stateMap, MountedNode, last.vtree, TRUE)

\* C18's case: the panel component was mounted: its section is a root, and the
\* button of the component inside it, a child of the section, is a root too,
\* seeded from its first child
C18_Witness ==
  /\ MountedTree
  /\ last.vtree = element(panelBody, <<>>)
  /\ heap[MountedNode].root
  /\ heap[heap[MountedNode].childNodes[1]].root
  /\ heap[heap[MountedNode].childNodes[1]].tag = "button"
  /\ stateMap[heap[MountedNode].childNodes[1]] = 0

\* C19: when a listener fires and the handler returns a value that is not an
\* array, nothing is replaced: the root element, its position in its parent,
\* its generation and its snapshot (the whole host tree and the whole side
\* table) are as they were.
C19_NoVnodeNoReplacement ==
  [][ (last'.op = "listener" /\ last'.called /\ ~IsArray(last'.result))
        => /\ heap' = heap
           /\ stateMap' = stateMap
           /\ last'.replacement = NullNode ]_vars

\* C19's case: a handler returned undefined inside a mounted root of
\* generation 1, and the root is still in its parent with generation 1
C19_Witness ==
  /\ last.op = "listener"
  /\ last.called
  /\ last.fn = tallyOninput
  /\ last.result = Undefined
  /\ heap[last.target].parentNode # NullNode
  /\ stateMap[last.target] = 1

RECURSIVE NoRootAbove(_, _)
\* no node from n up to the document carries the root marker
NoRootAbove(h, n) ==
  n = NullNode \/ (~h[n].root /\ NoRootAbove(h, h[n].parentNode))

\* C20: when a listener fires on an element none of whose ancestors, itself
\* included, carries the root marker, it aborts quietly: the handler is not
\* called, nothing is thrown or caught, nothing is replaced, and the host tree
\* and every generation entry are as they were.
C20_MissingRootAborts ==
  [][ (last'.op = "listener" /\ NoRootAbove(heap, last'.el))
        => /\ last'.target = NullNode
           /\ ~last'.called
           /\ last'.caught = ""
           /\ last'.replacement = NullNode
           /\ heap' = heap
           /\ stateMap' = stateMap ]_vars

\* C20's case: the listener of a button placed directly under body in an
\* html-rooted tree has fired and found no root
C20_Witness ==
  /\ last.op = "listener"
  /\ last.fn = tallyOnclick
  /\ heap[last.el].tag = "button"
  /\ heap[last.el].parentNode = BodyId
  /\ heap[BodyId].parentNode = HtmlId
  /\ NoRootAbove(heap, last.el)
  /\ last.target = NullNode

\* the step invokes a listener while an event is being dispatched whose
\* earlier listeners built the nodes in last.made
LaterListener == last.op = "listener" /\ last'.op = "listener"

\* the listener step did all of a self-replacement: the old root is out of its
\* parent, the replacement is in its place, carries the handler's result as
\* snapshot, and has the next generation recorded
ReplacementComplete ==
  /\ heap'[last'.target].parentNode = NullNode
  /\ heap'[last'.parent].childNodes[last'.index] = last'.replacement
  /\ heap'[last'.replacement].vnode = last'.result
  /\ generationOf(stateMap', last'.replacement) = last'.prev + 1

\* C21 as stated: no listener is invoked on a node of a subtree that a listener
\* of the same event built from its handler's result.
C21_AsStated ==
  [][ LaterListener => \A m \in last.made : m.node # last'.el ]_vars

\* C21 amended: a self-replacement is done within the one listener step, no
\* event is dispatched and no render runs while listeners of an event are still
\* to be invoked, and no listener is invoked on a node of a subtree that a
\* listener of the same event built from a handler's result without html, head
\* and body tags.
C21_ReplacementAtomic ==
  [][ /\ (last'.op = "listener" /\ last'.replacement # NullNode)
           => ReplacementComplete
      /\ last'.op \in {"dispatch", "render"} => pending = <<>>
      /\ LaterListener
           => \A m \in last.made : Plain(m.by) => m.node # last'.el ]_vars

\* C21's case: two listeners of one event ran, the first put a replacement
\* with a listener of its own in place, and the second was a listener that was
\* on the path when the event was dispatched
C21_Witness ==
  /\ last.op = "listener"
  /\ last.replacement # NullNode
  /\ \E m \in last.made :
       /\ m.node # last.replacement
       /\ HasEntry(heap[m.node].on, "onclick")
       /\ Plain(m.by)
       /\ m.by # last.result

IsWrap(v) == IsArray(v) /\ Idx(v, 0) = Str("wrap")

\* the child of a wrap vnode, and any other value as it is
Unwrap1(v) == IF IsWrap(v) THEN Idx(v, 2) ELSE v

\* C22 as stated: when exactly one of the vnodes a, b is a wrap vnode, diffTree
\* compares the wrap's child with the other vnode: its patch is the patch for
\* that pair, UPDATE for ['wrap', {}, ['div', ...]] against ['div', ...].
C22_UnwrapsFirst ==
  (ret.op = "diffTree" /\ IsVnode(argA) /\ IsVnode(argB)
     /\ IsWrap(argA) # IsWrap(argB))
    => ret.val = diffTree(Unwrap1(argA), Unwrap1(argB))

RECURSIVE Descriptor(_)
\* the plain descriptor of a value: a leaf as it is, a wrap vnode as its
\* child's descriptor, a vnode as its tag, its props and its children's
\* descriptors in order
Descriptor(v) ==
  IF ~IsArray(v) THEN v
  ELSE IF IsWrap(v) THEN Descriptor(Idx(v, 2))
  ELSE [ t |-> "descriptor", tag |-> Idx(v, 0), props |-> Idx(v, 1),
         children |-> [i \in 1..Len(Slice2(v)) |-> Descriptor(Slice2(v)[i])] ]

\* C23 as stated: where there is no document, renderTree of a leaf or a vnode
\* returns its plain descriptor and throws nothing.
C23_HeadlessDescriptor ==
  (ret.op = "renderTree" /\ Present(argA))
    => ret.val = Returned(Descriptor(argA))

\* the host children of element el stand for the children cs one for one: the
\* mirror of a child that is a leaf or a vnode, a comment node for any other
ChildrenOrPlaceholders(h, el, cs) ==
  /\ Len(h[el].childNodes) = Len(cs)
  /\ \A i \in 1..Len(cs) :
       IF Present(cs[i])
         THEN Shape(h, h[el].childNodes[i]) = Mirror(cs[i], TRUE)
         ELSE h[h[el].childNodes[i]].kind = "comment"

\* C24: when render materializes a tree (without html, head and body tags)
\* into a container, nothing is thrown, and the element of the tree has one
\* host child per listed child, in order: a placeholder comment node for each
\* child that is neither a vnode nor a leaf, and the materialization of each
\* other child.
C24_PlaceholderForMalformed ==
  (Mounted /\ Plain(last.vtree) /\ IsVnode(Unwrapped(last.vtree)))
    => /\ last.err = ""
       /\ AppendedOne
       /\ ChildrenOrPlaceholders(heap, MountedNode, Slice2(Unwrapped(last.vtree)))

\* C24's case: the list with undefined, null, [], an object and a vnode with a
\* number for tag among its children was mounted
C24_Witness ==
  /\ Mounted
  /\ last.vtree = holed
  /\ last.err = ""
  /\ [i \in 1..7 |-> heap[heap[MountedNode].childNodes[i]].kind]
       = <<"comment", "element", "comment", "comment", "comment", "comment", "text">>

\* vnode b is vnode a without the last k >= 1 children of its list
Truncated(a, b) ==
  /\ IsVnode(a) /\ IsVnode(b)
  /\ Idx(a, 0) = Idx(b, 0)
  /\ Len(Slice2(b)) < Len(Slice2(a))
  /\ Slice2(b) = SubSeq(Slice2(a), 1, Len(Slice2(b)))

\* C25 as stated: when render(v1, c) is followed by render(v2, c) and v2 is v1
\* without the last k children of its list, the host element keeps exactly the
\* host nodes of the retained children, in their order, for every k >= 1.
C25_TrailingChildrenRemoved ==
  [][ ( /\ last'.op = "render" /\ last'.container = AppId /\ last'.err = ""
        /\ Len(log') = 2 /\ log[1].op = "render" /\ log[1].container = AppId
        /\ log[1].err = ""
        /\ Truncated(last'.prev, last'.vtree) )
        => /\ heap'[AppId].childNodes = heap[AppId].childNodes
           /\ heap'[heap[AppId].childNodes[1]].childNodes
                = SubSeq(heap[heap[AppId].childNodes[1]].childNodes, 1,
                         Len(Slice2(last'.vtree))) ]_vars

\* render(v1, app) on the empty container is followed by render(v2, app)
SecondRender ==
  /\ last'.op = "render" /\ last'.container = AppId
  /\ Len(log') = 2 /\ log[1].op = "render" /\ log[1].container = AppId
  /\ log[1].err = ""

\* the state the patch for the wrapped vnodes leaves when it is applied to the
\* host element that was materialized for the wrapped vnode
PatchedAtWrapDepth ==
  applyPatch(Dom(heap, stateMap), AppId,
             diffTree(Idx(last'.prev, 2), Idx(last'.vtree, 2)), 0)

\* C26 as stated: when both trees are wrap vnodes, the patch computed for the
\* wrapped vnodes is applied to the host element materialized for the wrapped
\* vnode, each child patch to the corresponding child of that element: the
\* render does what applying that patch at the wrap's position does.
C26_WrapPatchDepth ==
  [][ (SecondRender /\ IsWrap(last'.prev) /\ IsWrap(last'.vtree))
        => /\ last'.err = PatchedAtWrapDepth.err
           /\ last'.err = ""
                => heap' = [PatchedAtWrapDepth.heap EXCEPT ![AppId].vnode = last'.vtree]
    ]_vars

\* a tree was mounted into the empty container and then a listener replaced a
\* root under the container by a handler's result
ReplacedAfterMount ==
  /\ last.op = "listener" /\ last.replacement # NullNode
  /\ IsInclusiveAncestor(heap, AppId, last.replacement)
  /\ Len(log) = 2 /\ log[1].op = "render" /\ log[1].container = AppId
  /\ log[1].err = ""
  /\ Plain(heap[AppId].vnode) /\ Plain(last.result)

\* C27 as stated: after a render into a container and a self-replacement of a
\* root under it, the snapshot stored on the container describes the host
\* subtree under the container.
C27_SnapshotFollowsReplacement ==
  ReplacedAfterMount
    => ChildShapes(heap, AppId) = <<Mirror(heap[AppId].vnode, TRUE)>>

RECURSIVE WrapChildren(_)
\* the vnodes that a wrap vnode inside v wraps
WrapChildren(v) ==
  IF ~IsVnode(v) THEN {}
  ELSE (IF IsWrap(v) THEN {Idx(v, 2)} ELSE {})
         \cup UNION {WrapChildren(Slice2(v)[i]) : i \in 1..Len(Slice2(v))}

\* C28 as stated: an element that a render materializes while it patches, below
\* the top element of the container, carries the root marker only if it was
\* materialized from the child of a wrap vnode; an element made for a CREATE or
\* REPLACE patch of another vnode is not a root.
C28_PatchedElementsNotRoots ==
  [][ (last'.op = "render" /\ ~last'.mount /\ last'.container = AppId)
        => \A n \in (Len(heap) + 1)..Len(heap') :
             (heap'[n].root /\ heap'[n].parentNode \notin {NullNode, AppId})
               => heap'[n].vnode \in WrapChildren(last'.vtree) ]_vars

\* a render of an html tree without container is followed by another one
DocumentRerender ==
  /\ last'.op = "render" /\ last'.container = NullNode /\ last'.target = HtmlId
  /\ ~last'.mount
  /\ Len(log') = 2 /\ log[1].op = "render" /\ log[1].err = ""
  /\ IsVnode(last'.prev) /\ Idx(last'.prev, 0) = Str("html")

\* the state the patches for the children of the html vnode leave when the
\* i-th of them is applied to the i-th child of the document element
PatchedAtDocumentElement ==
  applyPatches(Dom(heap, stateMap), HtmlId,
               diffTree(last'.prev, last'.vtree).children, 1)

\* C29 as stated: when an html tree is rendered after an earlier html tree, the
\* patch for the i-th child of the html vnode is applied to the i-th child of
\* the document element: the render does what applying the child patches at
\* the document element does.
C29_DocumentPatchDepth ==
  [][ DocumentRerender
        => /\ last'.err = PatchedAtDocumentElement.err
           /\ last'.err = ""
                => heap' = [PatchedAtDocumentElement.heap
                              EXCEPT ![HtmlId].vnode = last'.vtree] ]_vars

RECURSIVE TopOf(_, _)
\* the node without parent above n
TopOf(h, n) == IF h[n].parentNode = NullNode THEN n ELSE TopOf(h, h[n].parentNode)

\* one render mounted a tree, and everything since was event processing
OneRender ==
  /\ Len(log) >= 1 /\ log[1].op = "render" /\ log[1].err = ""
  /\ \A i \in 2..Len(log) : log[i].op = "dispatch"

\* node n is inside a detached subtree whose top carries the root marker: an
\* old root that a self-replacement took out of the page
InOldSubtree(h, n) == TopOf(h, n) # DocumentId /\ h[TopOf(h, n)].root

\* the host tree of the page and the generation of every root in it are as
\* they were
LiveUnchanged ==
  /\ Tree(heap', DocumentId) = Tree(heap, DocumentId)
  /\ \A r \in Subtree(heap, DocumentId) :
       heap[r].root => generationOf(stateMap', r) = generationOf(stateMap, r)

\* C30 as stated: a listener that fires inside the subtree of a root that a
\* self-replacement detached changes neither the live host tree nor the
\* generation recorded for a live root.
C30_AsStated ==
  [][ (last'.op = "listener" /\ OneRender /\ InOldSubtree(heap, last'.el))
        => LiveUnchanged ]_vars

\* C30 amended: the same for a handler that returns a vnode without html, head
\* and body tags (or no vnode); and whatever the handlers return, the
\* listeners of one event replace any given root at most once.
C30_OldRootInert ==
  [][ /\ ( /\ last'.op = "listener" /\ OneRender /\ InOldSubtree(heap, last'.el)
           /\ Plain(last'.result) )
           => LiveUnchanged
      /\ (LaterListener /\ last'.replacement # NullNode)
           => last'.target \notin last.gone ]_vars

\* C30's case: the event that replaced a root went on to a listener bound on
\* the old root itself, whose handler returned a vnode again, and nothing was
\* put in place of the detached root
C30_Witness ==
  /\ last.op = "listener"
  /\ last.called
  /\ IsArray(last.result)
  /\ last.target \in last.gone
  /\ heap[last.target].parentNode = NullNode
  /\ last.replacement = NullNode

====
